---- MODULE Spec2Model ----
(***************************************************************************)
(* Model of the Pagination component (src/components/Pagination).         *)
(*                                                                         *)
(* The component keeps one piece of state, currentPage (useState(1)), and *)
(* derives everything else from its props on every render: pageNeighbors  *)
(* (clamped to 0..2), totalPages (ceil(totalRecords / pageLimit)) and the *)
(* memoized token list `pages`.  A token is a page number or one of the   *)
(* two markers LEFT_PAGE / RIGHT_PAGE; tokens are modelled as records so  *)
(* that numbers and markers can be compared.                              *)
(*                                                                         *)
(* Four specifications are given:                                         *)
(*   Spec      the component as a user and a parent can drive it: clicks  *)
(*             on rendered buttons and prop changes;                      *)
(*   NavSpec   handleGoToPage / handleMoveLeft / handleMoveRight applied  *)
(*             with arbitrary arguments, props fixed;                     *)
(*   ClickSpec clicks on rendered buttons only, props fixed;              *)
(*   CalcSpec  the page-window calculation applied to arbitrary inputs.   *)
(***************************************************************************)
EXTENDS Integers, Sequences, FiniteSets

VARIABLES
    totalRecords,       \* prop totalRecords
    pageLimit,          \* prop pageLimit
    pageNeighborsProp,  \* prop props.pageNeighbors (unclamped)
    onPageChanged,      \* TRUE iff a callback was passed as onPageChanged
    currentPage,        \* useState(1)
    pages,              \* the memoized token list of the last render
    notified,           \* payloads the last handler passed to onPageChanged
    lastCall            \* the operation last invoked and its argument

vars == <<totalRecords, pageLimit, pageNeighborsProp, onPageChanged,
          currentPage, pages, notified, lastCall>>

props == <<totalRecords, pageLimit, pageNeighborsProp, onPageChanged>>

----------------------------------------------------------------------------
(* Bounds of the model *)

MaxRecords == 12

MaxLimit == 2

RecordCounts == 0..MaxRecords

PageLimits == 1..MaxLimit

NeighborProps == -1..3

Targets == -1..(MaxRecords + 1)

\* positions of the rendered buttons: pageNeighbors is at most 2, so at most
\* 2 * 2 + 5 tokens are rendered
ButtonIndexes == 1..9

----------------------------------------------------------------------------
(* Helpers *)

Max(a, b) == IF a >= b THEN a ELSE b

Min(a, b) == IF a <= b THEN a ELSE b

\* Math.ceil(a / b) for a >= 0, b >= 1
CeilDiv(a, b) == (a + b - 1) \div b

LEFT_PAGE == [kind |-> "LEFT", n |-> 0]

RIGHT_PAGE == [kind |-> "RIGHT", n |-> 0]

\* a page-number token
Page(n) == [kind |-> "PAGE", n |-> n]

\* range(from, to) of utils/common: the page numbers from..to, inclusive,
\* ascending; empty when to < from
range(from, to) == [i \in 1..(to - from + 1) |-> Page(from + i - 1)]

----------------------------------------------------------------------------
(* Derived values of a render *)

pageNeighbors == Max(0, Min(pageNeighborsProp, 2))

totalPages == CeilDiv(totalRecords, pageLimit)

totalNumbers(n) == n * 2 + 3

totalBlocks(n) == totalNumbers(n) + 2

startPage(cp, n) == Max(2, cp - n)

endPage(cp, tp, n) == Min(tp - 1, cp + n)

\* variant: the comparison admits startPage = 2
hasLeftSpill_geq(cp, n) == startPage(cp, n) >= 2

hasLeftSpill(cp, n) == startPage(cp, n) > 2

\* variant: requires two hidden pages to the right
hasRightSpill_strict(cp, tp, n) == tp - endPage(cp, tp, n) > 2

\* variant: the comparison admits endPage = totalPages - 1
hasRightSpill_geq(cp, tp, n) == tp - endPage(cp, tp, n) >= 1

hasRightSpill(cp, tp, n) == tp - endPage(cp, tp, n) > 1

\* `pages` before the spill handling: range(startPage, endPage)
middlePages(cp, tp, n) == range(startPage(cp, n), endPage(cp, tp, n))

\* variant: the slot of the ellipsis is not subtracted
spillOffset_noEllipsis(cp, tp, n) == totalNumbers(n) - Len(middlePages(cp, tp, n))

spillOffset(cp, tp, n) == totalNumbers(n) - (Len(middlePages(cp, tp, n)) + 1)

\* variant: the extra pages run up to startPage itself
leftExtraPages_overlap(cp, tp, n) ==
    range(startPage(cp, n) - spillOffset(cp, tp, n), startPage(cp, n))

leftExtraPages(cp, tp, n) ==
    range(startPage(cp, n) - spillOffset(cp, tp, n), startPage(cp, n) - 1)

rightExtraPages(cp, tp, n) ==
    range(endPage(cp, tp, n) + 1, endPage(cp, tp, n) + spillOffset(cp, tp, n))

\* `pages` after the if / else-if chain
spilledPages(cp, tp, n) ==
    IF hasLeftSpill(cp, n) /\ ~hasRightSpill(cp, tp, n)
    THEN <<LEFT_PAGE>> \o leftExtraPages(cp, tp, n) \o middlePages(cp, tp, n)
    ELSE IF ~hasLeftSpill(cp, n) /\ hasRightSpill(cp, tp, n)
    THEN middlePages(cp, tp, n) \o rightExtraPages(cp, tp, n) \o <<RIGHT_PAGE>>
    ELSE IF hasLeftSpill(cp, n) /\ hasRightSpill(cp, tp, n)
    THEN <<LEFT_PAGE>> \o middlePages(cp, tp, n) \o <<RIGHT_PAGE>>
    ELSE middlePages(cp, tp, n)

\* variant: the last page is not appended
withTerminals_noLast(mid, tp) == <<Page(1)>> \o mid

\* return [1, ...pages, totalPages]
withTerminals(mid, tp) == <<Page(1)>> \o mid \o <<Page(tp)>>

\* variant: windows as soon as totalPages reaches totalBlocks
computePages_geq(cp, tp, n) ==
    IF tp >= totalBlocks(n)
    THEN withTerminals(spilledPages(cp, tp, n), tp)
    ELSE range(1, tp)

\* the useMemo callback that computes `pages`
computePages(cp, tp, n) ==
    IF tp > totalBlocks(n)
    THEN withTerminals(spilledPages(cp, tp, n), tp)
    ELSE range(1, tp)

----------------------------------------------------------------------------
(* Handlers *)

NoCall == [op |-> "none", arg |-> 0]

\* variant: the lower clamp bound is 1
handleGoToPage_clampOne(page) ==
    /\ currentPage' = Max(1, Min(page, totalPages))
    /\ notified' = IF onPageChanged
                   THEN <<[currentPage  |-> currentPage,
                           totalPages   |-> totalPages,
                           pageLimit    |-> pageLimit,
                           totalRecords |-> totalRecords]>>
                   ELSE <<>>
    /\ UNCHANGED props
    /\ pages' = computePages(currentPage', totalPages', pageNeighbors')

\* variant: the callback is given the page navigated to
handleGoToPage_reportsNew(page) ==
    /\ currentPage' = Max(0, Min(page, totalPages))
    /\ notified' = IF onPageChanged
                   THEN <<[currentPage  |-> currentPage',
                           totalPages   |-> totalPages,
                           pageLimit    |-> pageLimit,
                           totalRecords |-> totalRecords]>>
                   ELSE <<>>
    /\ UNCHANGED props
    /\ pages' = computePages(currentPage', totalPages', pageNeighbors')

handleGoToPage(page) ==
    /\ currentPage' = Max(0, Min(page, totalPages))
    /\ notified' = IF onPageChanged
                   THEN <<[currentPage  |-> currentPage,
                           totalPages   |-> totalPages,
                           pageLimit    |-> pageLimit,
                           totalRecords |-> totalRecords]>>
                   ELSE <<>>
    /\ UNCHANGED props
    /\ pages' = computePages(currentPage', totalPages', pageNeighbors')

handleMoveLeft == handleGoToPage(currentPage - 1)

handleMoveRight == handleGoToPage(currentPage + 1)

handleClick(page) ==
    IF page = LEFT_PAGE THEN handleMoveLeft
    ELSE IF page = RIGHT_PAGE THEN handleMoveRight
    ELSE handleGoToPage(page.n)

----------------------------------------------------------------------------
(* The component: first render, clicks, prop changes *)

Init ==
    /\ totalRecords \in RecordCounts
    /\ pageLimit \in PageLimits
    /\ pageNeighborsProp \in NeighborProps
    /\ onPageChanged \in BOOLEAN
    /\ currentPage = 1
    /\ pages = computePages(currentPage, totalPages, pageNeighbors)
    /\ notified = <<>>
    /\ lastCall = NoCall

\* the user clicks the i-th rendered button; lastCall also keeps the kind of
\* token the button showed
Click(i) ==
    /\ i \in 1..Len(pages)
    /\ handleClick(pages[i])
    /\ lastCall' = [op |-> "click", arg |-> i, kind |-> pages[i].kind]

\* the parent re-renders the component with another totalRecords
SetTotalRecords(r) ==
    /\ r # totalRecords
    /\ totalRecords' = r
    /\ UNCHANGED <<pageLimit, pageNeighborsProp, onPageChanged, currentPage>>
    /\ pages' = computePages(currentPage', totalPages', pageNeighbors')
    /\ notified' = <<>>
    /\ lastCall' = [op |-> "setTotalRecords", arg |-> r]

\* the parent re-renders the component with another pageLimit
SetPageLimit(l) ==
    /\ l # pageLimit
    /\ pageLimit' = l
    /\ UNCHANGED <<totalRecords, pageNeighborsProp, onPageChanged, currentPage>>
    /\ pages' = computePages(currentPage', totalPages', pageNeighbors')
    /\ notified' = <<>>
    /\ lastCall' = [op |-> "setPageLimit", arg |-> l]

Next ==
    \/ \E i \in ButtonIndexes : Click(i)
    \/ \E r \in RecordCounts : SetTotalRecords(r)
    \/ \E l \in PageLimits : SetPageLimit(l)

Spec == Init /\ [][Next]_vars

----------------------------------------------------------------------------
(* The handlers applied directly, props fixed *)

GoToPage(target) ==
    /\ handleGoToPage(target)
    /\ lastCall' = [op |-> "goToPage", arg |-> target]

MoveLeft ==
    /\ handleMoveLeft
    /\ lastCall' = [op |-> "moveLeft", arg |-> 0]

MoveRight ==
    /\ handleMoveRight
    /\ lastCall' = [op |-> "moveRight", arg |-> 0]

NavNext ==
    \/ \E t \in Targets : GoToPage(t)
    \/ MoveLeft
    \/ MoveRight

NavSpec == Init /\ [][NavNext]_vars

\* clicks only, props fixed
ClickNext == \E i \in ButtonIndexes : Click(i)

ClickSpec == Init /\ [][ClickNext]_vars

----------------------------------------------------------------------------
(* The page-window calculation applied to arbitrary inputs *)

CalcInit ==
    /\ totalRecords \in RecordCounts
    /\ pageLimit \in PageLimits
    /\ pageNeighborsProp \in NeighborProps
    /\ onPageChanged = TRUE
    /\ currentPage \in Targets
    /\ pages = <<>>
    /\ notified = <<>>
    /\ lastCall = NoCall

Compute ==
    /\ lastCall = NoCall
    /\ pages' = computePages(currentPage, totalPages, pageNeighbors)
    /\ lastCall' = [op |-> "compute", arg |-> 0]
    /\ UNCHANGED <<totalRecords, pageLimit, pageNeighborsProp, onPageChanged,
                   currentPage, notified>>

CalcNext == Compute

CalcSpec == CalcInit /\ [][CalcNext]_vars

----------------------------------------------------------------------------
(* Properties of the page-window calculation (checked under CalcSpec) *)

Computed == lastCall.op = "compute"

IsEllipsis(tok) == tok.kind \in {"LEFT", "RIGHT"}

\* Page(from), ..., Page(to), written out independently of range
PageRun(from, to) == [i \in 1..(to - from + 1) |-> [kind |-> "PAGE", n |-> from + i - 1]]

\* C1: for totalPages >= 1, currentPage in 1..totalPages and any clamped
\* neighbour count, the computed sequence starts with Page(1) and ends with
\* Page(totalPages).
C1_TerminalsFirstAndLast ==
    (Computed /\ totalPages >= 1 /\ currentPage \in 1..totalPages) =>
        /\ Len(pages) >= 1
        /\ pages[1] = [kind |-> "PAGE", n |-> 1]
        /\ pages[Len(pages)] = [kind |-> "PAGE", n |-> totalPages]

C1_Witness ==
    /\ Computed
    /\ totalPages = 11 /\ pageNeighbors = 1 /\ currentPage = 5
    /\ pages[1].n = 1 /\ pages[Len(pages)].n = 11
    /\ \E i \in DOMAIN pages : IsEllipsis(pages[i])

\* C2: for 0 <= totalPages <= neighborCount*2 + 5 and every currentPage the
\* computed sequence is exactly Page(1), ..., Page(totalPages), without any
\* ellipsis; it is empty for totalPages = 0 and <<Page(1)>> for totalPages = 1.
C2_SmallTotalsListEveryPage ==
    (Computed /\ totalPages <= pageNeighbors * 2 + 5) =>
        /\ pages = PageRun(1, totalPages)
        /\ (totalPages = 0 => pages = <<>>)
        /\ (totalPages = 1 => pages = <<[kind |-> "PAGE", n |-> 1]>>)

C2_Witness ==
    /\ Computed
    /\ pageNeighbors = 2 /\ totalPages = 9 /\ currentPage = 5
    /\ Len(pages) = 9
    /\ \A i \in DOMAIN pages : pages[i].kind = "PAGE" /\ pages[i].n = i

\* C3: when totalPages > neighborCount*2 + 5 and both sides spill
\* (currentPage - n > 2 and currentPage + n < totalPages - 1) the sequence is
\* Page(1), LEFT, Page(currentPage - n) .. Page(currentPage + n), RIGHT,
\* Page(totalPages); 10 pages, page 6, 2 neighbours give
\* 1 LEFT 4 5 6 7 8 RIGHT 10.
C3_BothSpill ==
    /\ (/\ Computed
        /\ totalPages > pageNeighbors * 2 + 5
        /\ currentPage - pageNeighbors > 2
        /\ currentPage + pageNeighbors < totalPages - 1)
       => pages = <<[kind |-> "PAGE", n |-> 1], [kind |-> "LEFT", n |-> 0]>>
                  \o PageRun(currentPage - pageNeighbors, currentPage + pageNeighbors)
                  \o <<[kind |-> "RIGHT", n |-> 0], [kind |-> "PAGE", n |-> totalPages]>>
    /\ (Computed /\ totalPages = 10 /\ currentPage = 6 /\ pageNeighbors = 2)
       => pages = <<Page(1), LEFT_PAGE, Page(4), Page(5), Page(6), Page(7),
                    Page(8), RIGHT_PAGE, Page(10)>>

C3_Witness ==
    /\ Computed
    /\ totalPages = 10 /\ currentPage = 6 /\ pageNeighbors = 2
    /\ pages[2] = LEFT_PAGE /\ pages[8] = RIGHT_PAGE

RightSpillOnly ==
    currentPage - pageNeighbors <= 2 /\ currentPage + pageNeighbors < totalPages - 1

LeftSpillOnly ==
    currentPage - pageNeighbors > 2 /\ currentPage + pageNeighbors >= totalPages - 1

C6_EllipsisHidesAPage ==
    (Computed /\ currentPage \in 1..totalPages) =>
        \A i \in DOMAIN pages :
            IsEllipsis(pages[i]) =>
                /\ i > 1 /\ i < Len(pages)
                /\ pages[i - 1].kind = "PAGE"
                /\ pages[i + 1].kind = "PAGE"
                /\ pages[i + 1].n - pages[i - 1].n >= 2

C6_Witness ==
    /\ Computed
    /\ totalPages = 6 /\ pageNeighbors = 0 /\ currentPage = 3
    /\ pages = <<Page(1), LEFT_PAGE, Page(3), RIGHT_PAGE, Page(6)>>

----------------------------------------------------------------------------
(* Properties of the component (checked under Spec) *)

\* C5: in every reachable state with totalPages >= 1, currentPage lies in
\* 1..totalPages and the rendered sequence contains Page(currentPage).
C5_CurrentPageShown ==
    totalPages >= 1 =>
        /\ currentPage \in 1..totalPages
        /\ \E i \in DOMAIN pages : pages[i] = [kind |-> "PAGE", n |-> currentPage]

----------------------------------------------------------------------------
(* Properties of the handlers (checked under NavSpec) *)

Clamp0(x, hi) == IF x > hi THEN (IF hi < 0 THEN 0 ELSE hi) ELSE IF x < 0 THEN 0 ELSE x

\* C7: goToPage(target) sets currentPage to max(0, min(target, totalPages)),
\* moveLeft / moveRight are goToPage(currentPage - 1) / goToPage(currentPage + 1),
\* and after each of them currentPage is in 0..totalPages.
C7_GoToPageClampsToZero ==
    [][/\ lastCall'.op = "goToPage" =>
              currentPage' = Clamp0(lastCall'.arg, totalPages)
       /\ lastCall'.op = "moveLeft" =>
              currentPage' = Clamp0(currentPage - 1, totalPages)
       /\ lastCall'.op = "moveRight" =>
              currentPage' = Clamp0(currentPage + 1, totalPages)
       /\ currentPage' \in 0..totalPages']_vars

C7_Witness ==
    /\ lastCall = [op |-> "goToPage", arg |-> -1]
    /\ totalPages >= 1
    /\ currentPage = 0

\* C8: every goToPage call, also through moveLeft and moveRight, invokes the
\* registered callback exactly once, with the currentPage of before the call
\* and the current totalPages, pageLimit and totalRecords.
C8_CallbackGetsPreviousPage ==
    [][(lastCall'.op \in {"goToPage", "moveLeft", "moveRight"} /\ onPageChanged) =>
          notified' = <<[currentPage  |-> currentPage,
                         totalPages   |-> totalPages,
                         pageLimit    |-> pageLimit,
                         totalRecords |-> totalRecords]>>]_vars

C8_Witness ==
    /\ lastCall.op = "moveRight"
    /\ onPageChanged
    /\ currentPage = 2
    /\ Len(notified) = 1
    /\ notified[1].currentPage = 1

----------------------------------------------------------------------------
(* Properties of clicking (checked under ClickSpec) *)

\* C10: starting from page 1 with totalPages >= 1 and fixed props, clicks on
\* rendered tokens keep currentPage in 1..totalPages, and a click on an
\* ellipsis moves currentPage by exactly one (LEFT back, RIGHT forward).
C10_ClicksStayInRange ==
    [][/\ totalPages' >= 1 => currentPage' \in 1..totalPages'
       /\ (lastCall'.op = "click" /\ lastCall'.kind = "LEFT") =>
              currentPage' = currentPage - 1
       /\ (lastCall'.op = "click" /\ lastCall'.kind = "RIGHT") =>
              currentPage' = currentPage + 1]_vars

C10_Witness ==
    /\ lastCall.op = "click"
    /\ lastCall.kind = "RIGHT"
    /\ totalPages = 12 /\ pageNeighbors = 2
    /\ currentPage = 8

====
